---- MODULE Spec2Model ----
(***************************************************************************)
(* Model of the two example scripts of stack-overflow-snippets:            *)
(*   gmail-api/python_gmail_upload.py  (add_attachments, credentials)      *)
(*   sheets-api/sheets_api.py          (colors_example, apply_filters)     *)
(* Four specifications share the module, one per piece of logic:           *)
(*   SpecMail    - the attachment packing loop of add_attachments          *)
(*   SpecCreds   - get_saved_credentials / get_credentials_via_oauth       *)
(*   SpecCells   - the densify loop of colors_example                      *)
(*   SpecFilters - clear_filters / apply_filters                           *)
(***************************************************************************)
EXTENDS Integers, Sequences, FiniteSets, TLC

VARIABLES
    pc,            \* position of the running function
    \* ---- add_attachments ----
    max_MB,        \* parameter max_MB
    attachments,   \* parameter attachments: the candidate files, in input order
    f,             \* loop position: index of the next file of the for loop
    sz0,           \* len(bytes(email)) on entry
    sz,            \* tracked message size
    added,         \* size of the last attached part
    count,         \* number of attached parts
    payload,       \* parts attached to the email, as indices into attachments
    opened,        \* indices of the files opened for reading, in order
    oversized,     \* indices of the files that took the `margin = 0` branch
    \* ---- credentials ----
    credsFile,     \* creds.json on disk
    secretsFile,   \* TRUE when client_secret.json exists
    saveData,      \* parameter saveData of get_credentials_via_oauth
    loaded,        \* what get_saved_credentials returned
    creds,         \* the variable creds of the main flow
    oauthCalled,   \* get_credentials_via_oauth has been called
    flowRan,       \* iaflow.run_local_server() has been launched
    reported,      \* the missing-secrets message has been printed
    writes,        \* number of times creds.json has been written
    \* ---- colors_example ----
    celldata,      \* the data ranges of the API response, in order
    r,             \* loop position: index of the next data range
    dataset,       \* the list dataset
    srcIdx,        \* for each element of dataset, the index of its data range
    \* ---- apply_filters ----
    filters,       \* parameter filters: (sheetId, filter) items in dict order
    passed,        \* the items of filters as the caller passed them
    calls          \* the batchUpdate calls issued, in order

mailVars == <<max_MB, attachments, f, sz0, sz, added, count, payload, opened, oversized>>
credVars == <<credsFile, secretsFile, saveData, loaded, creds, oauthCalled, flowRan,
              reported, writes>>
cellVars == <<celldata, r, dataset, srcIdx>>
filterVars == <<filters, passed, calls>>
vars == <<pc, mailVars, credVars, cellVars, filterVars>>

\* values of the variables of the functions a specification does not run
IdleMail ==
    /\ max_MB = 1 /\ attachments = <<>> /\ f = 1 /\ sz0 = 0 /\ sz = 0 /\ added = 0
    /\ count = 0 /\ payload = <<>> /\ opened = <<>> /\ oversized = <<>>

IdleCreds ==
    /\ credsFile = [state |-> "missing", keys |-> {}]
    /\ secretsFile = FALSE /\ saveData = FALSE /\ loaded = "unset" /\ creds = "unset"
    /\ oauthCalled = FALSE /\ flowRan = FALSE /\ reported = FALSE /\ writes = 0

IdleCells ==
    /\ celldata = <<>> /\ r = 1 /\ dataset = <<>> /\ srcIdx = <<>>

IdleFilters ==
    /\ filters = <<>> /\ passed = <<>> /\ calls = <<>>

(***************************************************************************)
(* Bounds                                                                  *)
(***************************************************************************)
MaxFiles == 3
MaxMB == 2
MaxSize == 7
MaxSheets == 2

(***************************************************************************)
(* add_attachments                                                         *)
(***************************************************************************)
Cushion == 100000

\* bytes in max_MB megabytes
Budget(mb) == mb * 1024 * 1024

\* base64.encodebytes: 4 characters per 3 bytes, one newline per 57-byte chunk
Base64Len(n) == 4 * ((n + 2) \div 3) + ((n + 56) \div 57)

\* len(bytes(attachment)) after encode_base64 and the Content-Disposition header
EncodedLen(file) == file.hdr + Base64Len(file.raw)

\* candidate files: header bytes and raw content bytes
Files ==
    { [hdr |-> 142, raw |-> 0],
      [hdr |-> 136, raw |-> 37800],
      [hdr |-> 142, raw |-> 681000],
      [hdr |-> 150, raw |-> 1600000] }

\* len(bytes(email)) of the message handed to add_attachments
InitSizes == {300, 1000000, 1100000}

SeqsUpTo(S, n) == UNION { [1..k -> S] : k \in 0..n }

Margin(mb, size) == Budget(mb) - size

LimitReachedNoCushion(margin) == margin <= 0

LimitReached(margin) == margin <= Cushion

TooLarge(enc, margin) == enc >= margin

AttachFirst(parts, i) == <<i>> \o parts

Attach(parts, i) == Append(parts, i)

InitMail ==
    /\ pc = "loop"
    /\ max_MB \in 1..MaxMB
    /\ attachments \in SeqsUpTo(Files, MaxFiles)
    /\ sz0 \in InitSizes
    /\ sz = sz0
    /\ f = 1
    /\ added = 0
    /\ count = 0
    /\ payload = <<>>
    /\ opened = <<>>
    /\ oversized = <<>>
    /\ IdleCreds /\ IdleCells /\ IdleFilters

\* the for loop is exhausted: the function prints the size and returns
LoopEnd ==
    /\ pc = "loop"
    /\ f > Len(attachments)
    /\ pc' = "done"
    /\ UNCHANGED <<mailVars, credVars, cellVars, filterVars>>

\* line 109: margin <= 100000, break
LimitBreak ==
    /\ pc = "loop"
    /\ f <= Len(attachments)
    /\ LimitReached(Margin(max_MB, sz))
    /\ pc' = "done"
    /\ UNCHANGED <<mailVars, credVars, cellVars, filterVars>>

\* open(f, 'rb') raises: the exception leaves add_attachments
ReadFails ==
    /\ pc = "loop"
    /\ f <= Len(attachments)
    /\ ~LimitReached(Margin(max_MB, sz))
    /\ pc' = "raised"
    /\ UNCHANGED <<mailVars, credVars, cellVars, filterVars>>

\* lines 134-135: the encoded part does not fit; margin = 0 is overwritten
\* at the top of the next iteration, the loop goes on with the next file
SkipFile ==
    /\ pc = "loop"
    /\ f <= Len(attachments)
    /\ ~LimitReached(Margin(max_MB, sz))
    /\ TooLarge(EncodedLen(attachments[f]), Margin(max_MB, sz))
    /\ opened' = Append(opened, f)
    /\ oversized' = Append(oversized, f)
    /\ f' = f + 1
    /\ UNCHANGED <<pc, max_MB, attachments, sz0, sz, added, count, payload>>
    /\ UNCHANGED <<credVars, cellVars, filterVars>>

\* lines 136-140: the encoded part fits and is attached
AttachFile ==
    /\ pc = "loop"
    /\ f <= Len(attachments)
    /\ ~LimitReached(Margin(max_MB, sz))
    /\ ~TooLarge(EncodedLen(attachments[f]), Margin(max_MB, sz))
    /\ opened' = Append(opened, f)
    /\ added' = EncodedLen(attachments[f])
    /\ sz' = sz + EncodedLen(attachments[f])
    /\ count' = count + 1
    /\ payload' = Attach(payload, f)
    /\ f' = f + 1
    /\ UNCHANGED <<pc, max_MB, attachments, sz0, oversized>>
    /\ UNCHANGED <<credVars, cellVars, filterVars>>

NextMail ==
    \/ LoopEnd
    \/ LimitBreak
    \/ ReadFails
    \/ SkipFile
    \/ AttachFile

SpecMail == InitMail /\ [][NextMail]_vars

(***************************************************************************)
(* Properties of add_attachments                                           *)
(***************************************************************************)
RECURSIVE SumEncoded(_)
SumEncoded(parts) ==
    IF parts = <<>> THEN 0
    ELSE EncodedLen(attachments[Head(parts)]) + SumEncoded(Tail(parts))

\* C1: once a file's encoded size does not fit the remaining margin, packing
\* stops: no file after the first oversized file is read or attached.
C1_StopsAtFirstOversized ==
    oversized # <<>> =>
        /\ \A j \in 1..Len(opened) : opened[j] <= oversized[1]
        /\ \A j \in 1..Len(payload) : payload[j] < oversized[1]

\* C2: when packing has finished with at least one part attached, the final
\* message size (initial size plus the encoded sizes of the attached parts)
\* does not exceed the budget minus the 100000-byte cushion.
C2_FinalSizeWithinCushion ==
    (pc = "done" /\ count > 0) =>
        sz0 + SumEncoded(payload) <= Budget(max_MB) - Cushion

\* C8: the attached parts appear in the order of their files in the input
\* list, and every input file is attached at most once.
C8_InputOrder ==
    /\ \A i \in 1..Len(payload) : payload[i] \in 1..Len(attachments)
    /\ \A i, j \in 1..Len(payload) : i < j => payload[i] < payload[j]

C8_Witness ==
    /\ pc = "done"
    /\ Len(payload) >= 2
    /\ oversized # <<>>
    /\ \E i \in 1..Len(payload) : payload[i] > oversized[1]

\* C10: if the initial size is below the budget B, sz stays strictly below B
\* after every iteration; a file is attached only in an iteration that started
\* with B - sz > 100000 and only if its encoded size is strictly less than
\* B - sz; an iteration that does not attach leaves sz, count and the message
\* unchanged.
C10_LoopInvariant ==
    [][ /\ (sz0 < Budget(max_MB) => sz' < Budget(max_MB))
        /\ (payload' # payload =>
              /\ Budget(max_MB) - sz > Cushion
              /\ EncodedLen(attachments[f]) < Budget(max_MB) - sz
              /\ payload' = Append(payload, f)
              /\ sz' = sz + EncodedLen(attachments[f])
              /\ count' = count + 1)
        /\ (payload' = payload => (sz' = sz /\ count' = count)) ]_vars

C10_Witness ==
    /\ pc = "done"
    /\ sz0 < Budget(max_MB)
    /\ count >= 1
    /\ oversized # <<>>
    /\ Budget(max_MB) - sz <= Cushion
    /\ f <= Len(attachments)

(***************************************************************************)
(* get_saved_credentials, store_creds, get_credentials_via_oauth and the   *)
(* main flow (the same code in both scripts)                               *)
(***************************************************************************)
AllKeys == {"refresh_token", "token", "client_id", "client_secret", "token_uri"}

\* creds.json: missing, not JSON, or a JSON object with some of the keys
CredsFiles ==
    { [state |-> "missing", keys |-> {}], [state |-> "garbage", keys |-> {}] }
        \cup { [state |-> "object", keys |-> k] : k \in SUBSET AllKeys }

RequiredPresentNoSecret(keys) ==
    keys # {} /\ "refresh_token" \in keys /\ "client_id" \in keys

\* the condition of the if statement of get_saved_credentials
RequiredPresent(keys) ==
    keys # {} /\ "refresh_token" \in keys /\ "client_id" \in keys
              /\ "client_secret" \in keys

\* Credentials(**fileData): token is the one parameter without a default
ConstructorAccepts(keys) == "token" \in keys

StoreCredsNothing(file, credentials) == file

\* store_creds: the file after the call
StoreCredsFile(file, credentials) ==
    IF credentials = "Credentials"
    THEN [state |-> "object", keys |-> AllKeys]
    ELSE file

InitCreds ==
    /\ pc = "start"
    /\ credsFile \in CredsFiles
    /\ secretsFile \in BOOLEAN
    /\ saveData \in BOOLEAN
    /\ loaded = "unset"
    /\ creds = "unset"
    /\ oauthCalled = FALSE
    /\ flowRan = FALSE
    /\ reported = FALSE
    /\ writes = 0
    /\ IdleMail /\ IdleCells /\ IdleFilters

\* get_saved_credentials returns None: FileNotFoundError, or the final return
GetSavedAbsent ==
    /\ pc = "start"
    /\ \/ credsFile.state = "missing"
       \/ credsFile.state = "object" /\ ~RequiredPresent(credsFile.keys)
    /\ loaded' = "None"
    /\ creds' = "None"
    /\ pc' = "loaded"
    /\ UNCHANGED <<credsFile, secretsFile, saveData, oauthCalled, flowRan, reported, writes>>
    /\ UNCHANGED <<mailVars, cellVars, filterVars>>

\* get_saved_credentials returns Credentials(**fileData)
GetSavedCredential ==
    /\ pc = "start"
    /\ credsFile.state = "object"
    /\ RequiredPresent(credsFile.keys)
    /\ ConstructorAccepts(credsFile.keys)
    /\ loaded' = "Credentials"
    /\ creds' = "Credentials"
    /\ pc' = "loaded"
    /\ UNCHANGED <<credsFile, secretsFile, saveData, oauthCalled, flowRan, reported, writes>>
    /\ UNCHANGED <<mailVars, cellVars, filterVars>>

\* json.load or the Credentials constructor raises; nothing catches it
GetSavedRaises ==
    /\ pc = "start"
    /\ \/ credsFile.state = "garbage"
       \/ /\ credsFile.state = "object"
          /\ RequiredPresent(credsFile.keys)
          /\ ~ConstructorAccepts(credsFile.keys)
    /\ pc' = "raised"
    /\ UNCHANGED <<credVars, mailVars, cellVars, filterVars>>

\* main: `if not creds` is false
SkipOAuth ==
    /\ pc = "loaded"
    /\ creds # "None"
    /\ pc' = "service"
    /\ UNCHANGED <<credVars, mailVars, cellVars, filterVars>>

\* main: `if not creds` is true, get_credentials_via_oauth is called
CallOAuth ==
    /\ pc = "loaded"
    /\ creds = "None"
    /\ oauthCalled' = TRUE
    /\ pc' = "secrets"
    /\ UNCHANGED <<credsFile, secretsFile, saveData, loaded, creds, flowRan, reported, writes>>
    /\ UNCHANGED <<mailVars, cellVars, filterVars>>

\* from_client_secrets_file raises FileNotFoundError: print, fall off the end
SecretsMissing ==
    /\ pc = "secrets"
    /\ ~secretsFile
    /\ reported' = TRUE
    /\ creds' = "None"
    /\ pc' = "service"
    /\ UNCHANGED <<credsFile, secretsFile, saveData, loaded, oauthCalled, flowRan, writes>>
    /\ UNCHANGED <<mailVars, cellVars, filterVars>>

\* from_client_secrets_file succeeds: the else branch starts
SecretsRead ==
    /\ pc = "secrets"
    /\ secretsFile
    /\ pc' = "flow"
    /\ UNCHANGED <<credVars, mailVars, cellVars, filterVars>>

\* iaflow.run_local_server() returns
RunLocalServer ==
    /\ pc = "flow"
    /\ flowRan' = TRUE
    /\ pc' = "save"
    /\ UNCHANGED <<credsFile, secretsFile, saveData, loaded, creds, oauthCalled, reported, writes>>
    /\ UNCHANGED <<mailVars, cellVars, filterVars>>

\* iaflow.run_local_server() raises (consent refused, no browser)
RunLocalServerFails ==
    /\ pc = "flow"
    /\ flowRan' = TRUE
    /\ pc' = "raised"
    /\ UNCHANGED <<credsFile, secretsFile, saveData, loaded, creds, oauthCalled, reported, writes>>
    /\ UNCHANGED <<mailVars, cellVars, filterVars>>

\* `if saveData: store_creds(iaflow.credentials)`
StoreCreds ==
    /\ pc = "save"
    /\ saveData
    /\ credsFile' = StoreCredsFile(credsFile, "Credentials")
    /\ writes' = writes + 1
    /\ pc' = "return"
    /\ UNCHANGED <<secretsFile, saveData, loaded, creds, oauthCalled, flowRan, reported>>
    /\ UNCHANGED <<mailVars, cellVars, filterVars>>

\* saveData is false: nothing is stored
NoStore ==
    /\ pc = "save"
    /\ ~saveData
    /\ pc' = "return"
    /\ UNCHANGED <<credVars, mailVars, cellVars, filterVars>>

\* `return iaflow.credentials`
ReturnCredentials ==
    /\ pc = "return"
    /\ creds' = "Credentials"
    /\ pc' = "service"
    /\ UNCHANGED <<credsFile, secretsFile, saveData, loaded, oauthCalled, flowRan, reported, writes>>
    /\ UNCHANGED <<mailVars, cellVars, filterVars>>

\* get_service(creds)
GetService ==
    /\ pc = "service"
    /\ pc' = "done"
    /\ UNCHANGED <<credVars, mailVars, cellVars, filterVars>>

NextCreds ==
    \/ GetSavedAbsent
    \/ GetSavedCredential
    \/ GetSavedRaises
    \/ SkipOAuth
    \/ CallOAuth
    \/ SecretsMissing
    \/ SecretsRead
    \/ RunLocalServer
    \/ RunLocalServerFails
    \/ StoreCreds
    \/ NoStore
    \/ ReturnCredentials
    \/ GetService

SpecCreds == InitCreds /\ [][NextCreds]_vars

(***************************************************************************)
(* Properties of the credential store                                      *)
(***************************************************************************)
LacksRequiredKey(file) ==
    \/ file.state = "missing"
    \/ /\ file.state = "object"
       /\ ~({"refresh_token", "client_id", "client_secret"} \subseteq file.keys)

\* C6: get_saved_credentials returns None whenever the file is missing or its
\* object lacks one of refresh_token, client_id, client_secret, and returns a
\* credential only when all three are present; the main flow calls the
\* interactive authorization exactly when the load returned None.
C6_LoadAbsentThenOAuth ==
    [][ /\ (pc = "start" =>
              /\ (LacksRequiredKey(credsFile) => loaded' = "None")
              /\ (loaded' = "Credentials" =>
                    /\ credsFile.state = "object"
                    /\ {"refresh_token", "client_id", "client_secret"}
                           \subseteq credsFile.keys))
        /\ (pc = "loaded" => (oauthCalled' <=> loaded = "None"))
        /\ (pc # "loaded" => oauthCalled' = oauthCalled) ]_vars

C6_Witness ==
    /\ pc = "done"
    /\ loaded = "None"
    /\ oauthCalled
    /\ writes = 0
    /\ credsFile.state = "object"
    /\ credsFile.keys = {"refresh_token", "token", "client_id", "token_uri"}

\* C9: with the client secrets file missing, get_credentials_via_oauth prints
\* the error, does not raise, returns None, never launches the consent flow
\* and never writes the credentials file; with the file present and saveData
\* set, the credential is stored before it is returned.
C9_OAuthMissingSecretsAndStore ==
    [][ /\ ((pc = "secrets" /\ ~secretsFile) =>
              /\ pc' = "service"
              /\ reported'
              /\ creds' = "None"
              /\ credsFile' = credsFile)
        /\ (~secretsFile => (~flowRan' /\ writes' = 0))
        /\ ((pc = "return" /\ saveData) =>
              /\ writes = 1
              /\ credsFile = [state |-> "object", keys |-> AllKeys]
              /\ creds = "None"
              /\ creds' = "Credentials") ]_vars

C9_Witness ==
    /\ pc = "done"
    /\ oauthCalled
    /\ secretsFile
    /\ saveData
    /\ flowRan
    /\ writes = 1
    /\ creds = "Credentials"

(***************************************************************************)
(* colors_example: the loop that turns the response into 0-indexed arrays  *)
(***************************************************************************)
\* Python dicts are functions from the keys present to their values
EmptyDict == [k \in {} |-> 0]

Has(d, k) == k \in DOMAIN d

Repeat(x, n) == [i \in 1..n |-> x]

\* elements of the outer lists rangeBGs / rangeValues: a dict, a str or a list
PyDict(d) == [type |-> "dict", val |-> d]
PyStr(t) == [type |-> "str", val |-> t]
PyList(items) == [type |-> "list", val |-> items]

default_bg == [red |-> 1, green |-> 1, blue |-> 1]

\* cells as the field mask returns them: colour and value, value only, nothing
Cells ==
    { [effectiveFormat |-> [backgroundColor |-> [red |-> 1, green |-> 0, blue |-> 0]],
       formattedValue |-> "x"],
      [formattedValue |-> "y"],
      EmptyDict }

\* rows of the response that weigh n: one for the row, one for each cell;
\* a row without cells has no 'values' key
RowsOfSize(n) ==
    IF n = 1 THEN {EmptyDict} ELSE { [values |-> c] : c \in [1..(n - 1) -> Cells] }

\* the lists rowData that weigh n
RECURSIVE RowDataOfSize(_)
RowDataOfSize(n) ==
    IF n = 0 THEN {<<>>}
    ELSE UNION { { <<row>> \o rest : row \in RowsOfSize(k), rest \in RowDataOfSize(n - k) }
                 : k \in 1..n }

\* a data range: startRow / startColumn are present only when not 0,
\* rowData only when there are rows
MakeRange(sr, sc, rows) ==
    LET a == IF sr > 0 THEN [startRow |-> sr] ELSE EmptyDict
        b == IF sc > 0 THEN [startColumn |-> sc] ELSE EmptyDict
        c == IF rows # <<>> THEN [rowData |-> rows] ELSE EmptyDict
    IN  a @@ b @@ c

\* the data ranges that weigh n: one for the range, its two offsets, its rowData
RangesOfSize(n) ==
    UNION { UNION { { MakeRange(sr, sc, rows) : rows \in RowDataOfSize(n - 1 - sr - sc) }
                    : sc \in 0..(n - 1 - sr) }
            : sr \in 0..(n - 1) }

\* the responses (lists of data ranges) that weigh n
RECURSIVE ResponsesOfSize(_)
ResponsesOfSize(n) ==
    IF n = 0 THEN {<<>>}
    ELSE UNION { { <<g>> \o rest : g \in RangesOfSize(k), rest \in ResponsesOfSize(n - k) }
                 : k \in 1..n }

\* dict.get(key, default)
Get(d, k, default) == IF Has(d, k) THEN d[k] ELSE default

\* lines 106-109
BackgroundOf(col) ==
    IF Has(col, "effectiveFormat") /\ Has(col["effectiveFormat"], "backgroundColor")
    THEN col["effectiveFormat"]["backgroundColor"]
    ELSE default_bg

\* lines 110-113
ValueOf(col) ==
    IF Has(col, "formattedValue") THEN col["formattedValue"] ELSE ""

PadColsNone(x, n) == <<>>

\* lines 103-104: [x] * offsets['col']
PadCols(x, n) == Repeat(x, n)

\* lines 99-100: [x] * offsets['row'], the elements are x itself
PadRows(x, n) == Repeat(x, n)

\* lines 101-115 for the backgrounds
DenseBGs(range) ==
    LET rowData == Get(range, "rowData", <<>>)
        row == Get(range, "startRow", 0)
        col == Get(range, "startColumn", 0)
    IN  PadRows(PyDict(default_bg), row) \o
        [i \in 1..Len(rowData) |->
            PyList(PadCols(default_bg, col) \o
                   [j \in 1..Len(rowData[i]["values"]) |->
                        BackgroundOf(rowData[i]["values"][j])])]

\* lines 101-115 for the values
DenseValues(range) ==
    LET rowData == Get(range, "rowData", <<>>)
        row == Get(range, "startRow", 0)
        col == Get(range, "startColumn", 0)
    IN  PadRows(PyStr(""), row) \o
        [i \in 1..Len(rowData) |->
            PyList(PadCols("", col) \o
                   [j \in 1..Len(rowData[i]["values"]) |->
                        ValueOf(rowData[i]["values"][j])])]

\* the one sheet of the response
SheetProperties == [sheetId |-> 0, title |-> "Sheet1"]

InitCells ==
    /\ pc = "ranges"
    /\ celldata \in UNION { ResponsesOfSize(n) : n \in 0..MaxSize }
    /\ r = 1
    /\ dataset = <<>>
    /\ srcIdx = <<>>
    /\ IdleMail /\ IdleCreds /\ IdleFilters

\* lines 94-96: no rowData, continue
SkipRange ==
    /\ pc = "ranges"
    /\ r <= Len(celldata)
    /\ Get(celldata[r], "rowData", <<>>) = <<>>
    /\ r' = r + 1
    /\ UNCHANGED <<pc, celldata, dataset, srcIdx>>
    /\ UNCHANGED <<mailVars, credVars, filterVars>>

\* line 102: row['values'] raises KeyError on a row without cells
RowRaises ==
    /\ pc = "ranges"
    /\ r <= Len(celldata)
    /\ \E i \in 1..Len(Get(celldata[r], "rowData", <<>>)) :
            ~Has(celldata[r]["rowData"][i], "values")
    /\ pc' = "raised"
    /\ UNCHANGED <<cellVars, mailVars, credVars, filterVars>>

\* lines 97-119: one data range becomes one element of dataset
DensifyRange ==
    /\ pc = "ranges"
    /\ r <= Len(celldata)
    /\ Get(celldata[r], "rowData", <<>>) # <<>>
    /\ \A i \in 1..Len(celldata[r]["rowData"]) : Has(celldata[r]["rowData"][i], "values")
    /\ dataset' = Append(dataset,
                         [sheetId |-> SheetProperties.sheetId,
                          sheetName |-> SheetProperties.title,
                          backgrounds |-> DenseBGs(celldata[r]),
                          values |-> DenseValues(celldata[r])])
    /\ srcIdx' = Append(srcIdx, r)
    /\ r' = r + 1
    /\ UNCHANGED <<pc, celldata>>
    /\ UNCHANGED <<mailVars, credVars, filterVars>>

\* the loops are exhausted
RangesDone ==
    /\ pc = "ranges"
    /\ r > Len(celldata)
    /\ pc' = "done"
    /\ UNCHANGED <<cellVars, mailVars, credVars, filterVars>>

NextCells ==
    \/ SkipRange
    \/ RowRaises
    \/ DensifyRange
    \/ RangesDone

SpecCells == InitCells /\ [][NextCells]_vars

(***************************************************************************)
(* Properties of the densify loop                                          *)
(***************************************************************************)
White == [red |-> 1, green |-> 1, blue |-> 1]

StartRowOf(k) ==
    IF "startRow" \in DOMAIN celldata[srcIdx[k]] THEN celldata[srcIdx[k]].startRow ELSE 0

StartColOf(k) ==
    IF "startColumn" \in DOMAIN celldata[srcIdx[k]]
    THEN celldata[srcIdx[k]].startColumn ELSE 0

\* C4: for a data range with offsets R, C the j-th cell of the i-th returned
\* row is at values[R+i][C+j] and backgrounds[R+i][C+j] (0-based), a cell
\* without formattedValue gives '' and a cell without background gives white.
C4_CellsAtSheetCoordinates ==
    \A k \in 1..Len(dataset) :
        LET rows == celldata[srcIdx[k]].rowData
            R == StartRowOf(k)
            C == StartColOf(k)
            vs == dataset[k].values
            bs == dataset[k].backgrounds
        IN  \A i \in 1..Len(rows) : \A j \in 1..Len(rows[i].values) :
                LET cell == rows[i].values[j]
                IN  /\ R + i <= Len(vs) /\ R + i <= Len(bs)
                    /\ vs[R + i].type = "list" /\ bs[R + i].type = "list"
                    /\ C + j <= Len(vs[R + i].val) /\ C + j <= Len(bs[R + i].val)
                    /\ vs[R + i].val[C + j] =
                         (IF "formattedValue" \in DOMAIN cell
                          THEN cell.formattedValue ELSE "")
                    /\ bs[R + i].val[C + j] =
                         (IF "effectiveFormat" \in DOMAIN cell
                          THEN cell.effectiveFormat.backgroundColor ELSE White)

C4_Witness ==
    \E k \in 1..Len(dataset) :
        /\ StartRowOf(k) >= 1
        /\ StartColOf(k) >= 1
        /\ Len(celldata[srcIdx[k]].rowData) >= 2
        /\ \E i \in 1..2 : \E j \in 1..Len(celldata[srcIdx[k]].rowData[i].values) :
               celldata[srcIdx[k]].rowData[i].values[j] = EmptyDict

\* C5: the output is a dense rectangular grid: every element of values and of
\* backgrounds, the rows 0..R-1 included, is a row of cells, the padded rows
\* hold '' / white in every column, and all rows have the same width.
C5_DenseRectangularGrid ==
    \A k \in 1..Len(dataset) :
        LET vs == dataset[k].values
            bs == dataset[k].backgrounds
        IN  /\ \A i \in 1..Len(vs) : vs[i].type = "list" /\ bs[i].type = "list"
            /\ \A i, j \in 1..Len(vs) :
                   /\ Len(vs[i].val) = Len(vs[j].val)
                   /\ Len(bs[i].val) = Len(bs[j].val)
            /\ \A i \in 1..StartRowOf(k) :
                   /\ \A c \in 1..Len(vs[i].val) : vs[i].val[c] = ""
                   /\ \A c \in 1..Len(bs[i].val) : bs[i].val[c] = White

(***************************************************************************)
(* clear_filters and apply_filters                                         *)
(***************************************************************************)
SheetIds == 0..MaxSheets

\* the range of a basic filter as get_existing_basic_filters may return it:
\* the whole sheet, a bounded sub-range, a sub-range without the sheet id
FilterRange(sheetId, kind) ==
    CASE kind = "sheet" -> [sheetId |-> sheetId]
      [] kind = "bounded" -> [sheetId |-> sheetId, startRowIndex |-> 0, endRowIndex |-> 10,
                              startColumnIndex |-> 0, endColumnIndex |-> 3]
      [] kind = "noSheetId" -> [startRowIndex |-> 1, endRowIndex |-> 5]

\* a filter specification: its range and one more field
FilterSpec(sheetId, kind, field) ==
    IF field = "criteria"
    THEN [range |-> FilterRange(sheetId, kind), criteria |-> "hide blanks"]
    ELSE [range |-> FilterRange(sheetId, kind), sortSpecs |-> "A ascending"]

FilterKinds == {"sheet", "bounded", "noSheetId"} \X {"criteria", "sortSpecs"}

\* dicts of n items keyed by distinct sheet ids, as the sequence of their items
FilterDicts(n) ==
    { [i \in 1..n |-> [sheetId |-> ids[i],
                       filter |-> FilterSpec(ids[i], ch[i][1], ch[i][2])]] :
        ids \in { x \in [1..n -> SheetIds] : \A i, j \in 1..n : i # j => x[i] # x[j] },
        ch \in [1..n -> FilterKinds] }

ClearRequestsNone(known_filters) == <<>>

\* lines 143-145
ClearRequests(known_filters) ==
    [i \in 1..Len(known_filters) |->
        [clearBasicFilter |-> [sheetId |-> known_filters[i].sheetId]]]

KeepRange(filter, sheetId) == filter

\* line 163: filter['range'] = {'sheetId': sheetId}
RewriteRange(filter, sheetId) == ("range" :> [sheetId |-> sheetId]) @@ filter

\* lines 158-163: the items of filters after the loop
Rewritten(items) ==
    [i \in 1..Len(items) |->
        [sheetId |-> items[i].sheetId,
         filter |-> RewriteRange(items[i].filter, items[i].sheetId)]]

\* line 164
SetRequests(items) ==
    [i \in 1..Len(items) |-> [setBasicFilter |-> [filter |-> items[i].filter]]]

InitFilters ==
    /\ pc = "clear"
    /\ filters \in UNION { FilterDicts(n) : n \in 0..MaxSheets }
    /\ passed = filters
    /\ calls = <<>>
    /\ IdleMail /\ IdleCreds /\ IdleCells

\* clear_filters: no requests, return without a call
ClearNothing ==
    /\ pc = "clear"
    /\ ClearRequests(filters) = <<>>
    /\ pc' = "set"
    /\ UNCHANGED <<filterVars, mailVars, credVars, cellVars>>

\* clear_filters: the batchUpdate of the clear requests returns
ClearFilters ==
    /\ pc = "clear"
    /\ ClearRequests(filters) # <<>>
    /\ calls' = Append(calls, [requests |-> ClearRequests(filters), ok |-> TRUE])
    /\ pc' = "set"
    /\ UNCHANGED <<filters, passed, mailVars, credVars, cellVars>>

\* clear_filters: the batchUpdate raises, the exception leaves apply_filters
ClearFiltersFails ==
    /\ pc = "clear"
    /\ ClearRequests(filters) # <<>>
    /\ calls' = Append(calls, [requests |-> ClearRequests(filters), ok |-> FALSE])
    /\ pc' = "raised"
    /\ UNCHANGED <<filters, passed, mailVars, credVars, cellVars>>

\* apply_filters after the clear: no requests, return
SetNothing ==
    /\ pc = "set"
    /\ SetRequests(Rewritten(filters)) = <<>>
    /\ pc' = "done"
    /\ UNCHANGED <<filterVars, mailVars, credVars, cellVars>>

\* apply_filters after the clear: ranges rewritten in place, the batchUpdate
\* of the set requests returns
SetFilters ==
    /\ pc = "set"
    /\ SetRequests(Rewritten(filters)) # <<>>
    /\ filters' = Rewritten(filters)
    /\ calls' = Append(calls, [requests |-> SetRequests(Rewritten(filters)), ok |-> TRUE])
    /\ pc' = "done"
    /\ UNCHANGED <<passed, mailVars, credVars, cellVars>>

\* apply_filters after the clear: the batchUpdate of the set requests raises
SetFiltersFails ==
    /\ pc = "set"
    /\ SetRequests(Rewritten(filters)) # <<>>
    /\ filters' = Rewritten(filters)
    /\ calls' = Append(calls, [requests |-> SetRequests(Rewritten(filters)), ok |-> FALSE])
    /\ pc' = "raised"
    /\ UNCHANGED <<passed, mailVars, credVars, cellVars>>

NextFilters ==
    \/ ClearNothing
    \/ ClearFilters
    \/ ClearFiltersFails
    \/ SetNothing
    \/ SetFilters
    \/ SetFiltersFails

SpecFilters == InitFilters /\ [][NextFilters]_vars

(***************************************************************************)
(* Properties of apply_filters                                             *)
(***************************************************************************)
IsClear(req) == "clearBasicFilter" \in DOMAIN req
IsSet(req) == "setBasicFilter" \in DOMAIN req

ClearedIn(call) ==
    { call.requests[q].clearBasicFilter.sheetId :
        q \in { x \in 1..Len(call.requests) : IsClear(call.requests[x]) } }

\* C3: for a non-empty mapping the first batchUpdate holds a clearBasicFilter
\* for every sheet id, the setBasicFilter requests go in a separate later
\* batchUpdate, every sheet that gets a set was cleared by an earlier call that
\* returned, no batch holds both kinds, and no set follows a failed clear.
C3_ClearBeforeSet ==
    /\ \A k \in 1..Len(calls) :
           ~(\E p, q \in 1..Len(calls[k].requests) :
                 IsClear(calls[k].requests[p]) /\ IsSet(calls[k].requests[q]))
    /\ \A k \in 1..Len(calls) : \A q \in 1..Len(calls[k].requests) :
           IsSet(calls[k].requests[q]) =>
               \E j \in 1..(k - 1) :
                   /\ calls[j].ok
                   /\ passed[q].sheetId \in ClearedIn(calls[j])
    /\ Len(calls) >= 1 =>
           /\ \A q \in 1..Len(calls[1].requests) : IsClear(calls[1].requests[q])
           /\ ClearedIn(calls[1]) = { passed[i].sheetId : i \in 1..Len(passed) }
    /\ (Len(calls) >= 1 /\ ~calls[1].ok) => Len(calls) = 1
    /\ (pc = "done" /\ passed # <<>>) =>
           /\ Len(calls) = 2
           /\ Len(calls[2].requests) = Len(passed)
           /\ \A q \in 1..Len(calls[2].requests) : IsSet(calls[2].requests[q])

C3_Witness ==
    /\ pc = "done"
    /\ Len(passed) = 2
    /\ Len(calls) = 2
    /\ calls[1].ok
    /\ calls[2].ok

\* C7: every setBasicFilter request carries the range {sheetId: id of its
\* sheet} and nothing else in the range, whatever range was passed in, and all
\* other fields of the filter specification as they were passed in.
C7_WholeSheetRange ==
    \A k \in 1..Len(calls) : \A q \in 1..Len(calls[k].requests) :
        IsSet(calls[k].requests[q]) =>
            LET sent == calls[k].requests[q].setBasicFilter.filter
                given == passed[q].filter
            IN  /\ "range" \in DOMAIN sent
                /\ sent.range = [sheetId |-> passed[q].sheetId]
                /\ DOMAIN sent = DOMAIN given \cup {"range"}
                /\ \A key \in DOMAIN given \ {"range"} : sent[key] = given[key]

C7_Witness ==
    /\ Len(calls) = 2
    /\ \E q \in 1..Len(calls[2].requests) :
           /\ IsSet(calls[2].requests[q])
           /\ "endRowIndex" \in DOMAIN passed[q].filter.range
           /\ "sheetId" \notin DOMAIN passed[q].filter.range
           /\ passed[q].sheetId # 0
           /\ "sortSpecs" \in DOMAIN passed[q].filter

====
